---- MODULE Spec2Model ----
(***************************************************************************)
(* Property registry of bit_buy_icp_backend (src/hashing.rs): a process-   *)
(* wide HashMap<String, Property> behind one RwLock, with the operations   *)
(* upload_property, get_properties, get_property_by_id, delete_property    *)
(* and the SHA-256 image hasher hash_image.                                *)
(***************************************************************************)
EXTENDS Integers, Sequences, FiniteSets, TLC

(***************************************************************************)
(* hash_image: SHA-256 (FIPS 180-4) of the image bytes, hex::encode'd.     *)
(* A 32-bit word is the pair <<high 16 bits, low 16 bits>>, so that every  *)
(* intermediate value stays below 2^31.                                    *)
(***************************************************************************)
Half == 65536

\* one bit of the three bitwise functions of SHA-256
BitOf(op, a, b, c) ==
    CASE op = "xor" -> (a + b + c) % 2
      [] op = "ch"  -> a * b + (1 - a) * c
      [] op = "maj" -> (a + b + c) \div 2

\* op applied bit by bit to three n-bit naturals (n = 16, 4, 1), a quarter of
\* the bits at a time
RECURSIVE Bitwise(_, _, _, _, _)
Bitwise(op, a, b, c, n) ==
    IF n = 1 THEN BitOf(op, a, b, c)
    ELSE LET q == n \div 4
             p == 2 ^ q
         IN  (Bitwise(op, a \div (p * p * p), b \div (p * p * p), c \div (p * p * p), q)
                  * (p * p * p)
              + Bitwise(op, (a \div (p * p)) % p, (b \div (p * p)) % p,
                        (c \div (p * p)) % p, q) * (p * p))
             + (Bitwise(op, (a \div p) % p, (b \div p) % p, (c \div p) % p, q) * p
                + Bitwise(op, a % p, b % p, c % p, q))

\* x ^ y ^ z
Xor3(x, y, z) ==
    IF Len(x) + Len(y) + Len(z) = 6
    THEN <<Bitwise("xor", x[1], y[1], z[1], 16), Bitwise("xor", x[2], y[2], z[2], 16)>>
    ELSE x

\* u32::rotate_right
RotR(x, n) ==
    LET hi == IF n < 16 THEN x[1] ELSE x[2]
        lo == IF n < 16 THEN x[2] ELSE x[1]
        m  == n % 16
        p  == 2 ^ m
        q  == 2 ^ (16 - m)
    IN  <<(hi \div p) + (lo % p) * q, (lo \div p) + (hi % p) * q>>

\* u32 >> n, for n < 16
ShR(x, n) ==
    LET p == 2 ^ n
        q == 2 ^ (16 - n)
    IN  <<x[1] \div p, (x[2] \div p) + (x[1] % p) * q>>

\* u32::wrapping_add of two words
Add(x, y) ==
    LET lo == x[2] + y[2]
        hi == x[1] + y[1] + (lo \div Half)
    IN  <<hi % Half, lo % Half>>

\* u32::wrapping_add of the words of a sequence (at most 5: the sums stay
\* below 2^31)
AddAll(ws) ==
    LET lo == IF Len(ws) = 4 THEN ws[1][2] + ws[2][2] + ws[3][2] + ws[4][2]
              ELSE ws[1][2] + ws[2][2] + ws[3][2] + ws[4][2] + ws[5][2]
        hi == IF Len(ws) = 4 THEN ws[1][1] + ws[2][1] + ws[3][1] + ws[4][1]
              ELSE ws[1][1] + ws[2][1] + ws[3][1] + ws[4][1] + ws[5][1]
    IN  <<(hi + (lo \div Half)) % Half, lo % Half>>

\* (x & y) ^ (!x & z)
Ch(x, y, z) ==
    <<Bitwise("ch", x[1], y[1], z[1], 16), Bitwise("ch", x[2], y[2], z[2], 16)>>

\* (x & y) ^ (x & z) ^ (y & z)
Maj(x, y, z) ==
    <<Bitwise("maj", x[1], y[1], z[1], 16), Bitwise("maj", x[2], y[2], z[2], 16)>>

BigSigma0(x) == Xor3(RotR(x, 2), RotR(x, 13), RotR(x, 22))

BigSigma1(x) == Xor3(RotR(x, 6), RotR(x, 11), RotR(x, 25))

SmallSigma0(x) == Xor3(RotR(x, 7), RotR(x, 18), ShR(x, 3))

SmallSigma1(x) == Xor3(RotR(x, 17), RotR(x, 19), ShR(x, 10))

\* the 64 round constants
K256 ==
   <<
      <<17034, 12184>>, <<28983, 17553>>, <<46528, 64463>>, <<59829, 56229>>,
      <<14678, 49755>>, <<23025, 4593>>, <<37439, 33444>>, <<43804, 24277>>,
      <<55303, 43672>>, <<4739, 23297>>, <<9265, 34238>>, <<21772, 32195>>,
      <<29374, 23924>>, <<32990, 45566>>, <<39900, 1703>>, <<49563, 61812>>,
      <<58523, 27073>>, <<61374, 18310>>, <<4033, 40390>>, <<9228, 41420>>,
      <<11753, 11375>>, <<19060, 33962>>, <<23728, 43484>>, <<30457, 35034>>,
      <<38974, 20818>>, <<43057, 50797>>, <<45059, 10184>>, <<48985, 32711>>,
      <<50912, 3059>>, <<54695, 37191>>, <<1738, 25425>>, <<5161, 10599>>,
      <<10167, 2693>>, <<11803, 8504>>, <<19756, 28156>>, <<21304, 3347>>,
      <<25866, 29524>>, <<30314, 2747>>, <<33218, 51502>>, <<37490, 11397>>,
      <<41663, 59553>>, <<43034, 26187>>, <<49739, 35696>>, <<51052, 20899>>,
      <<53650, 59417>>, <<54937, 1572>>, <<62478, 13701>>, <<4202, 41072>>,
      <<6564, 49430>>, <<7735, 27656>>, <<10056, 30540>>, <<13488, 48309>>,
      <<14620, 3251>>, <<20184, 43594>>, <<23452, 51791>>, <<26670, 28659>>,
      <<29839, 33518>>, <<30885, 25455>>, <<33992, 30740>>, <<36039, 520>>,
      <<37054, 65530>>, <<42064, 27883>>, <<48889, 41975>>, <<50801, 30962>>
   >>

\* the initial hash value
H256_INIT ==
   <<
      <<27145, 58983>>, <<47975, 44677>>, <<15470, 62322>>, <<42319, 62778>>,
      <<20750, 21119>>, <<39685, 26764>>, <<8067, 55723>>, <<23520, 52505>>
   >>

\* Sha256::finalize padding: 0x80, zero bytes up to 56 mod 64, then the bit
\* length as 8 big-endian bytes
Pad(bytes) ==
    LET n == Len(bytes)
        k == (64 - ((n + 9) % 64)) % 64
        l == 8 * n
    IN  bytes \o <<128>> \o [i \in 1..(k + 4) |-> 0]
              \o <<(l \div 16777216) % 256, (l \div 65536) % 256,
                   (l \div 256) % 256, l % 256>>

\* word t (1..16) of a 64-byte block, big-endian
BlockWord(block, t) ==
    <<256 * block[4 * t - 3] + block[4 * t - 2],
      256 * block[4 * t - 1] + block[4 * t]>>

\* word t (17..64) of the message schedule, from the words before it
ScheduleWord(W, t) ==
    AddAll(<<SmallSigma1(W[t - 2]), W[t - 7], SmallSigma0(W[t - 15]), W[t - 16]>>)

\* the message schedule extended by its words lo..hi, W holding the words
\* before lo; the first half is computed before the second is entered
RECURSIVE Schedule(_, _, _)
Schedule(W, lo, hi) ==
    IF lo = hi THEN W \o <<ScheduleWord(W, lo)>>
    ELSE LET mid == (lo + hi) \div 2
             W1  == Schedule(W, lo, mid)
         IN  IF Len(W1) = mid THEN Schedule(W1, mid + 1, hi) ELSE W1

\* one round of the compression function on the working variables a..h
Round(v, W, t) ==
    LET s1 == BigSigma1(v[5])
        ch == Ch(v[5], v[6], v[7])
        s0 == BigSigma0(v[1])
        mj == Maj(v[1], v[2], v[3])
    IN  IF Len(s1) + Len(ch) + Len(s0) + Len(mj) = 8
        THEN LET T1 == AddAll(<<v[8], s1, ch, K256[t], W[t]>>)
                 T2 == Add(s0, mj)
             IN  <<Add(T1, T2), v[1], v[2], v[3], Add(v[4], T1), v[5], v[6], v[7]>>
        ELSE v

\* rounds lo..hi in order; the first half is computed before the second is
\* entered
RECURSIVE Rounds(_, _, _, _)
Rounds(v, W, lo, hi) ==
    IF lo = hi THEN Round(v, W, lo)
    ELSE LET mid == (lo + hi) \div 2
             v1  == Rounds(v, W, lo, mid)
         IN  IF Len(v1) = 8 THEN Rounds(v1, W, mid + 1, hi) ELSE v1

Compress(h, block) ==
    LET W0 == <<BlockWord(block, 1), BlockWord(block, 2), BlockWord(block, 3),
                BlockWord(block, 4), BlockWord(block, 5), BlockWord(block, 6),
                BlockWord(block, 7), BlockWord(block, 8), BlockWord(block, 9),
                BlockWord(block, 10), BlockWord(block, 11), BlockWord(block, 12),
                BlockWord(block, 13), BlockWord(block, 14), BlockWord(block, 15),
                BlockWord(block, 16)>>
        W  == Schedule(W0, 17, 64)
        v  == IF Len(W) = 64 THEN Rounds(h, W, 1, 64) ELSE h
    IN  <<Add(h[1], v[1]), Add(h[2], v[2]), Add(h[3], v[3]), Add(h[4], v[4]),
          Add(h[5], v[5]), Add(h[6], v[6]), Add(h[7], v[7]), Add(h[8], v[8])>>

RECURSIVE Blocks(_, _)
Blocks(h, bytes) ==
    IF Len(bytes) = 0 THEN h
    ELSE LET h1 == Compress(h, SubSeq(bytes, 1, 64))
         IN  IF Len(h1) = 8 THEN Blocks(h1, SubSeq(bytes, 65, Len(bytes))) ELSE h1

Sha256(bytes) == Blocks(H256_INIT, Pad(bytes))

HexDigits == <<"0", "1", "2", "3", "4", "5", "6", "7",
               "8", "9", "a", "b", "c", "d", "e", "f">>

\* four lowercase hexadecimal digits of a 16-bit value
Hex16(n) ==
    HexDigits[(n \div 4096) + 1] \o HexDigits[((n \div 256) % 16) + 1]
        \o HexDigits[((n \div 16) % 16) + 1] \o HexDigits[(n % 16) + 1]

\* hex::encode of the digest words j..8
RECURSIVE HexEncode(_, _)
HexEncode(h, j) ==
    IF j > Len(h) THEN ""
    ELSE Hex16(h[j][1]) \o Hex16(h[j][2]) \o HexEncode(h, j + 1)

hash_image(image_data) == HexEncode(Sha256(image_data), 1)

(***************************************************************************)
(* The data model: PropertyType, Property, and the inputs of the calls.    *)
(***************************************************************************)
\* the number of calls issued in one behaviour
MaxCalls == 3

\* the parties that issue calls; each has at most one call in flight
Callers == {"c1", "c2"}

\* the threads that execute calls; thread_local! gives each its own
\* DECENTRALIZED_PLATFORM
Threads == {"t1", "t2"}

PropertyIds == {"p1", "p2"}

\* a String whose characters Debug formatting inspects is the sequence of its
\* code points: a, ", form feed, NUL, U+0301 (combining acute accent)
OtherLabels == {<<97, 34, 12, 0, 769>>}

\* enum PropertyType { RealEstate, Car, Art, Other(String) }
RealEstate == [tag |-> "RealEstate"]

Car == [tag |-> "Car"]

Art == [tag |-> "Art"]

Other(label) == [tag |-> "Other", label |-> label]

PropertyTypes == {RealEstate} \cup {Other(l) : l \in OtherLabels}

Images == {<< >>, <<1, 2>>, <<3>>}

Descriptions == {"lake house", "loft"}

Owners == {"alice", "bob"}

\* Option<T>
None == [some |-> FALSE]

Some(v) == [some |-> TRUE, value |-> v]

\* char::is_grapheme_extended, for the code points up to U+0377: the
\* combining diacritical marks U+0300..U+036F
is_grapheme_extended(ch) == ch \in 768..879

\* core::unicode::printable::is_printable, for the code points up to U+0377:
\* not the controls U+0000..U+001F and U+007F..U+009F, not the no-break space
\* U+00A0, not the soft hyphen U+00AD
is_printable(ch) == ch \in (32..126) \cup (161..172) \cup (174..887)

\* the lowercase hexadecimal digits of n, without leading zeros, as code points
RECURSIVE HexDigitsOf(_)
HexDigitsOf(n) ==
    LET d == n % 16
        c == IF d < 10 THEN 48 + d ELSE 87 + d
    IN  IF n < 16 THEN <<c>> ELSE HexDigitsOf(n \div 16) \o <<c>>

\* char::escape_unicode: \u{..}
EscapeUnicode(ch) == <<92, 117, 123>> \o HexDigitsOf(ch) \o <<125>>

\* char::escape_debug_ext as <str as Debug>::fmt applies it (double quote
\* escaped, single quote not, Grapheme_Extend escaped), for the code points
\* up to U+0377: \0, \t, \r, \n, \\ and \" are spelled with a backslash, a
\* Grapheme_Extend or non-printable character is written \u{..}, a printable
\* character stands for itself
EscapeChar(ch) ==
    CASE ch = 0 -> <<92, 48>>
      [] ch = 9 -> <<92, 116>>
      [] ch = 13 -> <<92, 114>>
      [] ch = 10 -> <<92, 110>>
      [] ch \in {92, 34} -> <<92, ch>>
      [] ch \in (1..887) \ {9, 10, 13, 34, 92} ->
            IF is_grapheme_extended(ch) THEN EscapeUnicode(ch)
            ELSE IF is_printable(ch) THEN <<ch>>
            ELSE EscapeUnicode(ch)

\* the escaped characters of a str, in order
RECURSIVE EscapeDebug(_)
EscapeDebug(chars) ==
    IF Len(chars) = 0 THEN << >>
    ELSE EscapeChar(Head(chars)) \o EscapeDebug(Tail(chars))

\* the code points of the name of a variant of PropertyType
VariantName(tag) ==
    CASE tag = "RealEstate" -> <<82, 101, 97, 108, 69, 115, 116, 97, 116, 101>>
      [] tag = "Car" -> <<67, 97, 114>>
      [] tag = "Art" -> <<65, 114, 116>>
      [] tag = "Other" -> <<79, 116, 104, 101, 114>>

\* format!("{:?}", property_type) under #[derive(Debug)], as code points:
\* the variant's name, and for Other the label as ("..") with its characters escaped
DebugFmt(property_type) ==
    IF property_type.tag = "Other"
    THEN VariantName("Other") \o <<40, 34>> \o EscapeDebug(property_type.label)
             \o <<34, 41>>
    ELSE VariantName(property_type.tag)

\* hash_image of every image a call can carry, computed once
ImageHashes == {<<image_data, hash_image(image_data)>> : image_data \in Images}

\* hash_image(&image_data), looked up
ImageHash(image_data) == (CHOOSE p \in ImageHashes : p[1] = image_data)[2]

NewProperty_SwapsDescriptionAndOwner(args, hash) ==
    [id            |-> args.property_id,
     property_type |-> args.property_type,
     image_hash    |-> hash,
     description   |-> args.owner,
     owner         |-> args.description]

NewProperty_IdFromOwner(args, hash) ==
    [id            |-> args.owner,
     property_type |-> args.property_type,
     image_hash    |-> hash,
     description   |-> args.description,
     owner         |-> args.owner]

\* the Property that upload_property builds from its arguments and the hash
NewProperty(args, hash) ==
    [id            |-> args.property_id,
     property_type |-> args.property_type,
     image_hash    |-> hash,
     description   |-> args.description,
     owner         |-> args.owner]

(***************************************************************************)
(* HashMap<String, Property> as its set of (key, value) entries.           *)
(***************************************************************************)
Entry(k, v) == [key |-> k, value |-> v]

HashMapContains(map, k) == \E e \in map : e.key = k

\* HashMap::get(..).cloned()
HashMapGet(map, k) ==
    IF HashMapContains(map, k)
    THEN Some((CHOOSE e \in map : e.key = k).value)
    ELSE None

HashMapInsert_KeepsExisting(map, k, v) ==
    IF \E e \in map : e.key = k THEN map ELSE map \cup {[key |-> k, value |-> v]}

\* HashMap::insert: the entry under k, if any, is replaced
HashMapInsert(map, k, v) == {e \in map : e.key # k} \cup {Entry(k, v)}

HashMapRemove_Clears(map, k) == IF \E e \in map : e.key = k THEN {} ELSE map

\* HashMap::remove
HashMapRemove(map, k) == {e \in map : e.key # k}

\* HashMap::iter: the entries in some order, each exactly once
HashMapIter(map) ==
    {s \in [1..Cardinality(map) -> map] :
        \A i, j \in 1..Cardinality(map) : i # j => s[i] # s[j]}

ListTuple_DescriptionForHash(e) ==
    <<e.key, DebugFmt(e.value.property_type), e.value.description>>

\* the closure of get_properties' map()
ListTuple(e) == <<e.key, DebugFmt(e.value.property_type), e.value.image_hash>>

(***************************************************************************)
(* The calls a caller can issue.                                           *)
(***************************************************************************)
UploadCalls ==
    [op : {"upload_property"}, property_id : PropertyIds, property_type : PropertyTypes,
     image_data : Images, description : Descriptions, owner : Owners]

GetCalls == [op : {"get_property_by_id"}, property_id : PropertyIds]

ListCalls == [op : {"get_properties"}]

DeleteCalls == [op : {"delete_property"}, property_id : PropertyIds]

AllCalls == UploadCalls \cup GetCalls \cup ListCalls \cup DeleteCalls

\* the calls of the threaded specification: every operation, every id, every image
ThreadCalls ==
    {a \in UploadCalls : /\ a.property_type = RealEstate
                         /\ a.description = "loft"
                         /\ a.owner = "alice"}
        \cup GetCalls \cup ListCalls \cup DeleteCalls

\* the history of an id: no record, because never uploaded or because deleted
NeverUploaded == [some |-> FALSE, removed |-> FALSE]

Removed == [some |-> FALSE, removed |-> TRUE]

NoCall == [op |-> "none"]

NoRet == [kind |-> "none"]

\* the value a call of operation op returned
Returned(op, v) == [kind |-> op, value |-> v]

\* a caller with no call in flight
AtRest == {"idle", "done", "trapped"}

VARIABLES
    properties,   \* each thread's DECENTRALIZED_PLATFORM: its properties map
    thread,       \* the thread that executes each caller's calls
    lock,         \* the guard each caller's call holds on its thread's RwLock
    pc,           \* each caller's position in the handler it runs
    call,         \* the operation and arguments of each caller's call in flight
    ret,          \* what each caller's last call returned
    latest,       \* the history of each id: the arguments of the last upload applied
                  \* and whether it replaced a record, or that the id holds none
    calls         \* the number of calls issued

vars == <<properties, thread, lock, pc, call, ret, latest, calls>>

\* the state after construction: every thread's registry is empty
InitState ==
    /\ properties = [t \in Threads |-> {}]
    /\ lock = [c \in Callers |-> "none"]
    /\ pc = [c \in Callers |-> "idle"]
    /\ call = [c \in Callers |-> NoCall]
    /\ ret = [c \in Callers |-> NoRet]
    /\ latest = [k \in PropertyIds |-> NeverUploaded]
    /\ calls = 0

\* the canister: one thread executes every call
Init ==
    /\ thread = [c \in Callers |-> "t1"]
    /\ InitState

\* DECENTRALIZED_PLATFORM.with(..): the registry of the thread that runs c's call
Platform(c) == properties[thread[c]]

\* the callers whose calls run on the thread of c's calls
SameThread(c) == {d \in Callers : thread[d] = thread[c]}

\* RwLock::write returns once no guard is held on the thread's lock
CanWrite(c) == \A d \in SameThread(c) : lock[d] = "none"

\* RwLock::read returns once no write guard is held on the thread's lock
CanRead(c) == \A d \in SameThread(c) : lock[d] # "write"

EntryPoint(op) ==
    CASE op = "upload_property" -> "upload_entry"
      [] op = "get_property_by_id" -> "get_read"
      [] op = "get_properties" -> "list_read"
      [] op = "delete_property" -> "delete_write"

\* a thread runs one call at a time, each to its return or trap: the entry
\* points are synchronous
ThreadIdle(c) == \A d \in SameThread(c) : pc[d] \in AtRest

\* caller c can issue a call
CanDispatch(c) == ThreadIdle(c) /\ calls < MaxCalls

\* a call of caller c enters its handler
Dispatch(c, args) ==
    /\ CanDispatch(c)
    /\ calls' = calls + 1
    /\ call' = [call EXCEPT ![c] = args]
    /\ ret' = [ret EXCEPT ![c] = NoRet]
    /\ pc' = [pc EXCEPT ![c] = EntryPoint(args.op)]
    /\ UNCHANGED <<properties, thread, lock, latest>>

UploadValidate_NoCheck(c) ==
    /\ pc[c] = "upload_entry"
    /\ pc' = [pc EXCEPT ![c] = "upload_write"]
    /\ UNCHANGED <<properties, thread, lock, call, ret, latest, calls>>

\* upload_property up to the lock: ic_cdk::trap on an empty image ends the call;
\* otherwise the hash and the Property are locals that the arguments determine
UploadValidate(c) ==
    /\ pc[c] = "upload_entry"
    /\ IF Len(call[c].image_data) = 0
       THEN /\ pc' = [pc EXCEPT ![c] = "trapped"]
            /\ call' = [call EXCEPT ![c] = NoCall]
       ELSE /\ pc' = [pc EXCEPT ![c] = "upload_write"]
            /\ call' = call
    /\ UNCHANGED <<properties, thread, lock, ret, latest, calls>>

UploadAcquire_TakesReadGuard(c) ==
    /\ pc[c] = "upload_write"
    /\ CanRead(c)
    /\ lock' = [lock EXCEPT ![c] = "read"]
    /\ pc' = [pc EXCEPT ![c] = "upload_insert"]
    /\ UNCHANGED <<properties, thread, call, ret, latest, calls>>

\* platform.write()
UploadAcquire(c) ==
    /\ pc[c] = "upload_write"
    /\ CanWrite(c)
    /\ lock' = [lock EXCEPT ![c] = "write"]
    /\ pc' = [pc EXCEPT ![c] = "upload_insert"]
    /\ UNCHANGED <<properties, thread, call, ret, latest, calls>>

\* the insert under the write guard, the guard's drop and the return of the hash
UploadInsert(c) ==
    /\ pc[c] = "upload_insert"
    /\ LET hash == ImageHash(call[c].image_data)
       IN  /\ properties' = [properties EXCEPT ![thread[c]] =
                                 HashMapInsert(@, call[c].property_id,
                                               NewProperty(call[c], hash))]
           /\ ret' = [ret EXCEPT ![c] = Returned("upload_property", hash)]
    /\ latest' = [latest EXCEPT ![call[c].property_id] =
                     [some |-> TRUE, value |-> call[c], replaced |-> @.some]]
    /\ lock' = [lock EXCEPT ![c] = "none"]
    /\ pc' = [pc EXCEPT ![c] = "done"]
    /\ call' = [call EXCEPT ![c] = NoCall]
    /\ UNCHANGED <<thread, calls>>

\* platform.read()
GetAcquire(c) ==
    /\ pc[c] = "get_read"
    /\ CanRead(c)
    /\ lock' = [lock EXCEPT ![c] = "read"]
    /\ pc' = [pc EXCEPT ![c] = "get_lookup"]
    /\ UNCHANGED <<properties, thread, call, ret, latest, calls>>

GetLookup_KeepsGuard(c) ==
    /\ pc[c] = "get_lookup"
    /\ ret' = [ret EXCEPT ![c] =
                  Returned("get_property_by_id",
                           HashMapGet(Platform(c), call[c].property_id))]
    /\ pc' = [pc EXCEPT ![c] = "done"]
    /\ call' = [call EXCEPT ![c] = NoCall]
    /\ UNCHANGED <<properties, thread, lock, latest, calls>>

GetLookup_TakesRecord(c) ==
    /\ pc[c] = "get_lookup"
    /\ ret' = [ret EXCEPT ![c] =
                  Returned("get_property_by_id",
                           HashMapGet(Platform(c), call[c].property_id))]
    /\ properties' = [properties EXCEPT ![thread[c]] =
                         {e \in @ : e.key # call[c].property_id}]
    /\ lock' = [lock EXCEPT ![c] = "none"]
    /\ pc' = [pc EXCEPT ![c] = "done"]
    /\ call' = [call EXCEPT ![c] = NoCall]
    /\ UNCHANGED <<thread, latest, calls>>

\* get(&property_id).cloned() under the read guard, the guard's drop, the return
GetLookup(c) ==
    /\ pc[c] = "get_lookup"
    /\ ret' = [ret EXCEPT ![c] =
                  Returned("get_property_by_id",
                           HashMapGet(Platform(c), call[c].property_id))]
    /\ lock' = [lock EXCEPT ![c] = "none"]
    /\ pc' = [pc EXCEPT ![c] = "done"]
    /\ call' = [call EXCEPT ![c] = NoCall]
    /\ UNCHANGED <<properties, thread, latest, calls>>

\* platform.read()
ListAcquire(c) ==
    /\ pc[c] = "list_read"
    /\ CanRead(c)
    /\ lock' = [lock EXCEPT ![c] = "read"]
    /\ pc' = [pc EXCEPT ![c] = "list_collect"]
    /\ UNCHANGED <<properties, thread, call, ret, latest, calls>>

\* iter().map(..).collect() under the read guard, the guard's drop, the return
ListCollect(c) ==
    /\ pc[c] = "list_collect"
    /\ \E order \in HashMapIter(Platform(c)) :
          ret' = [ret EXCEPT ![c] =
                     Returned("get_properties",
                              [i \in 1..Len(order) |-> ListTuple(order[i])])]
    /\ lock' = [lock EXCEPT ![c] = "none"]
    /\ pc' = [pc EXCEPT ![c] = "done"]
    /\ call' = [call EXCEPT ![c] = NoCall]
    /\ UNCHANGED <<properties, thread, latest, calls>>

\* platform.write()
DeleteAcquire(c) ==
    /\ pc[c] = "delete_write"
    /\ CanWrite(c)
    /\ lock' = [lock EXCEPT ![c] = "write"]
    /\ pc' = [pc EXCEPT ![c] = "delete_remove"]
    /\ UNCHANGED <<properties, thread, call, ret, latest, calls>>

DeleteRemove_KeepsRecord(c) ==
    /\ pc[c] = "delete_remove"
    /\ ret' = [ret EXCEPT ![c] =
                  Returned("delete_property",
                           HashMapGet(Platform(c), call[c].property_id).some)]
    /\ latest' = [latest EXCEPT ![call[c].property_id] = IF @.some THEN Removed ELSE @]
    /\ lock' = [lock EXCEPT ![c] = "none"]
    /\ pc' = [pc EXCEPT ![c] = "done"]
    /\ call' = [call EXCEPT ![c] = NoCall]
    /\ UNCHANGED <<properties, thread, calls>>

\* remove(&property_id).is_some() under the write guard, the guard's drop, the return
DeleteRemove(c) ==
    /\ pc[c] = "delete_remove"
    /\ properties' = [properties EXCEPT ![thread[c]] =
                         HashMapRemove(@, call[c].property_id)]
    /\ ret' = [ret EXCEPT ![c] =
                  Returned("delete_property",
                           HashMapGet(Platform(c), call[c].property_id).some)]
    /\ latest' = [latest EXCEPT ![call[c].property_id] = IF @.some THEN Removed ELSE @]
    /\ lock' = [lock EXCEPT ![c] = "none"]
    /\ pc' = [pc EXCEPT ![c] = "done"]
    /\ call' = [call EXCEPT ![c] = NoCall]
    /\ UNCHANGED <<thread, calls>>

\* the steps of the handler that caller c's call runs
Handler(c) ==
    \/ UploadValidate(c)
    \/ UploadAcquire(c)
    \/ UploadInsert(c)
    \/ GetAcquire(c)
    \/ GetLookup(c)
    \/ ListAcquire(c)
    \/ ListCollect(c)
    \/ DeleteAcquire(c)
    \/ DeleteRemove(c)

\* the canister: its one thread executes the calls one after another
Next ==
    \E c \in Callers :
        \/ CanDispatch(c) /\ \E args \in AllCalls : Dispatch(c, args)
        \/ Handler(c)

Spec == Init /\ [][Next]_vars

\* the entry points called from the threads of one process: every caller's
\* calls run on some thread
ThreadInit ==
    /\ thread \in [Callers -> Threads]
    /\ InitState

ThreadNext ==
    \E c \in Callers :
        \/ CanDispatch(c) /\ \E args \in ThreadCalls : Dispatch(c, args)
        \/ Handler(c)

\* every thread that runs a call goes on running it
ThreadSpec ==
    /\ ThreadInit
    /\ [][ThreadNext]_vars
    /\ \A c \in Callers : WF_vars(Handler(c))

(***************************************************************************)
(* What the calls are expected to do, stated from the history `latest`.    *)
(***************************************************************************)
\* the record a get is to return for the upload u
UploadedRecord(u) ==
    [id            |-> u.property_id,
     property_type |-> u.property_type,
     image_hash    |-> ImageHash(u.image_data),
     description   |-> u.description,
     owner         |-> u.owner]

\* the response r is the value v returned by operation op
Gave(r, op, v) == r.kind = op /\ r.value = v

\* caller c's call takes the step that leads from position from to position to
Steps(c, from, to) == pc[c] = from /\ pc'[c] = to

\* the ids that hold a record according to the history
PresentIds == {k \in PropertyIds : latest[k].some}

\* the entries stored under key k
EntriesAt(map, k) == {e \in map : e.key = k}

\* C1 -- Round-trip: an upload stores, under its id, the record made of its
\* arguments and the digest of its image, and returns that digest; a
\* get_property_by_id of an id whose last write was an upload returns exactly
\* that record (id, category, description, owner, image_hash = digest(bytes)).
C1_RoundTrip ==
    [][\A c \in Callers :
          /\ Steps(c, "upload_insert", "done") =>
                /\ Gave(ret'[c], "upload_property", ImageHash(call[c].image_data))
                /\ HashMapGet(properties'[thread[c]], call[c].property_id)
                       = Some(UploadedRecord(call[c]))
          /\ (Steps(c, "get_lookup", "done") /\ latest[call[c].property_id].some) =>
                Gave(ret'[c], "get_property_by_id",
                                   Some(UploadedRecord(latest[call[c].property_id].value)))
      ]_vars

\* a get has returned the record of the spec's example upload, digest included
C1_Witness ==
    \E c \in Callers :
        /\ pc[c] = "done"
        /\ Gave(ret[c], "get_property_by_id",
                 Some([id |-> "p1", property_type |-> RealEstate,
                       image_hash |->
                         "a12871fee210fb8619291eaea194581cbd2531e4b23759d225f6806923f63222",
                       description |-> "lake house", owner |-> "alice"]))
        /\ latest["p1"].some
        /\ latest["p1"].value.image_data = <<1, 2>>

\* C2 -- Overwrite: an upload under an id that already holds a record succeeds
\* (it returns its digest, no error) and leaves exactly one record under the
\* id, all of whose fields are the second upload's; a later get returns it.
C2_Overwrite ==
    [][\A c \in Callers :
          /\ (Steps(c, "upload_insert", "done")
                /\ HashMapContains(Platform(c), call[c].property_id)) =>
                /\ Gave(ret'[c], "upload_property", ImageHash(call[c].image_data))
                /\ EntriesAt(properties'[thread[c]], call[c].property_id)
                       = {Entry(call[c].property_id, UploadedRecord(call[c]))}
          /\ (pc[c] = "upload_insert" /\ pc'[c] # pc[c]) => pc'[c] = "done"
          /\ (/\ Steps(c, "get_lookup", "done")
              /\ latest[call[c].property_id].some
              /\ latest[call[c].property_id].replaced) =>
                Gave(ret'[c], "get_property_by_id",
                                   Some(UploadedRecord(latest[call[c].property_id].value)))
      ]_vars

\* a get has returned the record of an upload that replaced another record
C2_Witness ==
    \E c \in Callers :
        /\ pc[c] = "done"
        /\ ret[c].kind = "get_property_by_id"
        /\ ret[c].value.some
        /\ latest[ret[c].value.value.id].some
        /\ latest[ret[c].value.value.id].replaced
        /\ ret[c].value.value = UploadedRecord(latest[ret[c].value.value.id].value)

\* C3 -- Deletion: delete_property returns true exactly when the id held a
\* record, leaves no record under the id, leaves the registry unchanged when
\* the id held none, and always returns; a get of an id that was deleted (or
\* never uploaded) returns absent.
C3_Deletion ==
    [][\A c \in Callers :
          /\ (pc[c] = "delete_remove" /\ pc'[c] # pc[c]) =>
                /\ pc'[c] = "done"
                /\ Gave(ret'[c], "delete_property",
                                      HashMapContains(Platform(c), call[c].property_id))
                /\ HashMapGet(properties'[thread[c]], call[c].property_id) = None
                /\ ~HashMapContains(Platform(c), call[c].property_id)
                       => properties' = properties
          /\ (pc[c] = "delete_write" /\ pc'[c] # pc[c]) => pc'[c] = "delete_remove"
          /\ (Steps(c, "get_lookup", "done") /\ ~latest[call[c].property_id].some) =>
                Gave(ret'[c], "get_property_by_id", None)
      ]_vars

\* a delete has returned true for an id that held a record and holds none now
C3_Witness ==
    \E c \in Callers :
        /\ pc[c] = "done"
        /\ Gave(ret[c], "delete_property", TRUE)
        /\ \E k \in PropertyIds : latest[k] = Removed /\ ~HashMapContains(Platform(c), k)

\* C4 -- Empty-input rejection: an upload with no image bytes traps: it
\* returns nothing and leaves the registry as it was; no other call traps.
C4_EmptyRejected ==
    [][\A c \in Callers :
          /\ (/\ pc[c] = "upload_entry"
              /\ pc'[c] # pc[c]
              /\ call[c].image_data = << >>) =>
                /\ pc'[c] = "trapped"
                /\ ret'[c] = NoRet
                /\ properties' = properties
          /\ (pc[c] # "trapped" /\ pc'[c] = "trapped") =>
                /\ call[c].op = "upload_property"
                /\ call[c].image_data = << >>
          /\ (pc[c] = "trapped" /\ pc'[c] = "trapped") =>
                /\ ret'[c] = NoRet
                /\ call'[c] = NoCall
      ]_vars

\* an upload has trapped while every id holds a record
C4_Witness ==
    \E c \in Callers :
        /\ pc[c] = "trapped"
        /\ ret[c] = NoRet
        /\ \A k \in PropertyIds : HashMapContains(Platform(c), k)

\* C5 -- Enumeration completeness: get_properties returns one tuple per id
\* that holds a record, no other id and no id twice, each with the category
\* rendering and the digest of the last upload under that id.
C5_Enumeration ==
    [][\A c \in Callers :
          Steps(c, "list_collect", "done") =>
             /\ ret'[c].kind = "get_properties"
             /\ LET list == ret'[c].value
                IN  /\ Len(list) = Cardinality(PresentIds)
                    /\ {list[i][1] : i \in 1..Len(list)} = PresentIds
                    /\ \A i \in 1..Len(list) :
                          list[i] = <<list[i][1],
                                      DebugFmt(latest[list[i][1]].value.property_type),
                                      ImageHash(latest[list[i][1]].value.image_data)>>
      ]_vars

\* a list of two records has been returned, one of them of category Other
C5_Witness ==
    \E c \in Callers :
        /\ pc[c] = "done"
        /\ ret[c].kind = "get_properties"
        /\ Len(ret[c].value) = 2
        /\ \E i \in 1..2 :
              \* Other("a\"\u{c}\0\u{301}")
              /\ ret[c].value[i][2]
                   = <<79, 116, 104, 101, 114, 40, 34, 97, 92, 34, 92, 117, 123, 99,
                       125, 92, 48, 92, 117, 123, 51, 48, 49, 125, 34, 41>>
              /\ ret[c].value[i][3]
                   = "084fed08b978af4d7d196a7446a86b58009e636b611db16211b65a9aadff29c5"

\* C6 -- Key/id invariant: every stored record's id is the key it is stored under.
C6_KeyIsId == \A t \in Threads : \A e \in properties[t] : e.value.id = e.key

\* the registry holds a record under each id
C6_Witness == \E c \in Callers : \A k \in PropertyIds : HashMapContains(Platform(c), k)

\* the registry that the writes applied so far amount to
RegistryOf(history) ==
    {Entry(k, UploadedRecord(history[k].value)) : k \in {i \in PropertyIds : history[i].some}}

\* what get_property_by_id(k) returns after the writes applied so far
GetOf(history, k) ==
    IF history[k].some THEN Some(UploadedRecord(history[k].value)) ELSE None

\* the calls other than c's that use the RwLock that c's call uses
Others(c) == SameThread(c) \ {c}

Waiting == {"upload_write", "get_read", "list_read", "delete_write"}

\* C8 -- No deadlock: a call takes the lock only when it holds none, gives it
\* up in the step in which it returns and holds none outside; whenever a call
\* is in flight, on whatever threads, some call can take a step; every call
\* issued ends (returns or traps).
C8_NoDeadlock ==
    /\ [](\A c \in Callers : pc[c] \in AtRest \cup Waiting \cup {"upload_entry"}
                                => lock[c] = "none")
    /\ []((\E c \in Callers : pc[c] \notin AtRest) => ENABLED (\E c \in Callers : Handler(c)))
    /\ [][\A c \in Callers :
             lock'[c] # lock[c] =>
                \/ lock[c] = "none" /\ pc[c] \in Waiting
                \/ lock'[c] = "none" /\ pc'[c] = "done"
       ]_vars
    /\ \A c \in Callers : (pc[c] \notin AtRest) ~> (pc[c] \in {"done", "trapped"})

\* two calls are in flight on two threads, one under its write guard and one
\* under its read guard, after a call that returned
C8_Witness ==
    \E c, d \in Callers :
        /\ thread[c] # thread[d]
        /\ lock[c] = "write"
        /\ lock[d] = "read"
        /\ calls = MaxCalls

\* the positions of the handlers of the two queries
ReadPositions == {"get_read", "get_lookup", "list_read", "list_collect"}

\* C9 -- Reads do not mutate: no step of get_property_by_id or get_properties
\* changes the registry; a get of an absent id returns absent and does not
\* trap; a value a read returned is not changed by later calls of others.
C9_ReadsDoNotMutate ==
    [][\A c \in Callers :
          /\ (pc[c] \in ReadPositions /\ pc'[c] # pc[c]) =>
                /\ properties' = properties
                /\ pc'[c] \in ReadPositions \cup {"done"}
          /\ (Steps(c, "get_lookup", "done")
                /\ ~HashMapContains(Platform(c), call[c].property_id)) =>
                Gave(ret'[c], "get_property_by_id", None)
          /\ (/\ pc[c] = "done"
              /\ pc'[c] = "done"
              /\ ret[c].kind \in {"get_property_by_id", "get_properties"}) =>
                ret'[c] = ret[c]
      ]_vars

\* a get's result is still held by its caller after the record it shows was
\* replaced or removed
C9_Witness ==
    \E c \in Callers :
        /\ pc[c] = "done"
        /\ ret[c].kind = "get_property_by_id"
        /\ ret[c].value.some
        /\ HashMapGet(Platform(c), ret[c].value.value.id) # ret[c].value

\* C10 -- Per-key frame: the step by which upload_property(id, ..) inserts and
\* the step by which delete_property(id) removes leave the entries under
\* every other key as they were.
C10_PerKeyFrame ==
    [][\A c \in Callers :
          (pc[c] \in {"upload_insert", "delete_remove"} /\ pc'[c] # pc[c]) =>
             \A k \in PropertyIds \ {call[c].property_id} :
                EntriesAt(properties'[thread[c]], k) = EntriesAt(Platform(c), k)
      ]_vars

\* a delete has removed one id's record while the other id's record stands
C10_Witness ==
    \E c \in Callers :
        /\ pc[c] = "done"
        /\ Gave(ret[c], "delete_property", TRUE)
        /\ \E k, j \in PropertyIds :
              /\ latest[k] = Removed
              /\ latest[j].some
              /\ HashMapGet(Platform(c), j) = Some(UploadedRecord(latest[j].value))

====
